---- MODULE Spec2Model ----
(***************************************************************************)
(* pen.lighting front end: the participant channel (UserRoomState), the    *)
(* display connection (OBSRoomState) and the lean simulator (PenPhysics).  *)
(*                                                                         *)
(* One instance of one of the two connection classes is followed from its  *)
(* construction on.  Browser objects (WebSocket, setTimeout) are modelled   *)
(* by what the handlers registered in the source observe of them.          *)
(***************************************************************************)
EXTENDS Integers, Sequences, FiniteSets, TLC

VARIABLES
    role,                 \* what is followed: "user" | "obs" | "physics" | "room" | "debounce"
    roomCode, nickname, password,
    xRef, yRef, thetaRef, colorRef,
    connectionStatusRef,
    _socket,              \* 0 = null, else index into socks
    _closedManually,
    _sendTimer,           \* TRUE iff the handle field is non-null
    socks,                \* every WebSocket object created so far
    reconnectTimeouts,    \* delays of the pending setTimeout(() => connect())
    sendTimeouts,         \* number of pending debounce callbacks
    penRoomMounted,       \* PenRoom.vue onMounted has run
    destroyed,            \* destroy() has been called
    muts,                 \* number of ref writes so far
    winMuts,              \* ref changes seen since the debounce timer was armed
    winSends,             \* updates sent since the debounce timer was armed
    lastUpdate,           \* the update sent last, with the socket it went to
    \* PenPhysics
    _theta, _omega, _target,      \* 1e-5 rad, 1e-5 rad/s
    _prevX, _vxFilt,              \* thousandths, thousandths/s
    _forceEmit, _stopped,
    _lastTick, _lastEmitTime,     \* ms
    _rafId,                       \* 0 = null, 1 = a frame callback is requested
    _lastEmittedThetaDeg,         \* NaN or thousandths of a degree
    frameMs,              \* frame period of the display, ms
    settling,             \* the run follows the engine until it has come to rest
    ticks,                \* calls of _tick so far
    moves,                \* pointer moves so far
    triggers,             \* calls of updateKinematics so far
    emits,                \* calls of the onTheta callback so far
    stillMs,              \* simulated time since x last changed or a trigger was set
    staleTicks,           \* calls of _tick that arrived after shutdown()
    \* OBSRoomState / ObsView.vue
    _users, usersListRef,         \* sequences of user records
    roomDetails,                  \* the room settings, or Undefined
    reloads,                      \* calls of window.location.reload()
    frames, lastFrame,            \* message events handled so far, and the last one
    \* OBSRoom.vue
    roomPhase,            \* "none" | "setup" | "mounted" | "unmounted"
    subset,               \* subset.value: sequence of roster indices (from 0)
    rrTimer,              \* 0 = null, else the handle of an interval
    intervals,            \* live setInterval timers: [id, maxN]
    stageW, stageH,       \* px
    displayed,            \* displayedPenlights as last rendered
    \* the debounce window of UserRoomState
    debounceMs,           \* the constructor argument, or undefined
    _debounceMs,          \* the field, -1 before the constructor has run
    sendDue,              \* ms left of the pending debounce timeout, -1 = none
    waited                \* ms the last debounce timeout has run, -1 = none yet

chanVars == <<role, roomCode, nickname, password, xRef, yRef, thetaRef, colorRef,
              connectionStatusRef, _socket, _closedManually, _sendTimer, socks,
              reconnectTimeouts, sendTimeouts, penRoomMounted, destroyed,
              muts, winMuts, winSends, lastUpdate>>

physVars == <<_theta, _omega, _target, _prevX, _vxFilt, _forceEmit, _stopped,
              _lastTick, _rafId, _lastEmitTime, _lastEmittedThetaDeg,
              frameMs, settling, ticks, moves, triggers, emits, stillMs, staleTicks>>

obsVars == <<_users, usersListRef, roomDetails, reloads, frames, lastFrame>>

roomVars == <<roomPhase, subset, rrTimer, intervals, stageW, stageH, displayed>>

timerVars == <<debounceMs, _debounceMs, sendDue, waited>>

vars == <<chanVars, physVars, obsVars, roomVars, timerVars>>

----------------------------------------------------------------------------
\* Bounds of the exploration
MaxSockets == 2
MaxMut == 2

\* WebSocket.readyState
CONNECTING == 0
OPEN == 1
CLOSING == 2
CLOSED == 3

\* delay of the retry timer, ms
RECONNECT_DELAY == 1000

\* Positions are held in thousandths of the stage, degrees in thousandths of a degree
Milli == 10 * 10 * 10

\* value the position refs are constructed with: ref(-100)
UnsetCoord == -100 * Milli

\* inputs
\* constructor arguments <<nickname, password>>
CtorArgs == {<<"", "undefined">>, <<"ann", "pw">>}
\* pointer events <<(clientX - r.left) / r.width, (clientY - r.top) / r.height, next theta>>
PointerEvents == {<<-1 * Milli, 0, 0>>, <<2 * Milli, Milli, 15 * Milli>>}
\* option indices of the colour select
ColorIdx == {1}

NoMsg == [type |-> "none"]

NumberRef(v) == [t |-> "number", v |-> v]
StringRef(v) == [t |-> "string", v |-> v]

\* Number(v) of a ref value holding a number or a decimal string
ToNumber(r) == r.v

clamp(v, min, max) == IF v < min THEN min ELSE IF v > max THEN max ELSE v

NewWebSocket == [readyState |-> CONNECTING, closeFired |-> FALSE, errorFired |-> FALSE,
                 sched |-> 0, flagAtClose |-> FALSE,
                 sent |-> <<>>, hello |-> NoMsg]

\* sock.send(data) on socket i
SockSend(sk, i, msg) ==
    [sk EXCEPT ![i].sent = Append(@, msg.type),
               ![i].hello = IF msg.type = "hello" THEN msg ELSE @]

\* sock.close(): only a connecting or open socket starts closing
SockCloseCall(sk, i) ==
    IF sk[i].readyState <= OPEN THEN [sk EXCEPT ![i].readyState = CLOSING] ELSE sk

----------------------------------------------------------------------------
\* UserRoomState

UserHello ==
    IF password # "undefined"
    THEN [type |-> "hello", role |-> "user", roomCode |-> roomCode,
          nickname |-> nickname, password |-> password]
    ELSE [type |-> "hello", role |-> "user", roomCode |-> roomCode,
          nickname |-> nickname]

\* a payload that leaves the colour at its constructed value
UpdatePayloadStaleColor ==
    [type |-> "update", x |-> ToNumber(xRef), y |-> ToNumber(yRef),
     theta |-> ToNumber(thetaRef), color |-> 0]

UpdatePayload ==
    [type |-> "update", x |-> ToNumber(xRef), y |-> ToNumber(yRef),
     theta |-> ToNumber(thetaRef), color |-> ToNumber(colorRef)]

\* _scheduleSend() without its "already scheduled" test
_scheduleSendNoGuard(sk) ==
    IF _socket = 0 \/ sk[_socket].readyState # OPEN
    THEN [timer |-> _sendTimer, timeouts |-> sendTimeouts, armed |-> FALSE]
    ELSE [timer |-> TRUE, timeouts |-> sendTimeouts + 1, armed |-> TRUE]

\* _scheduleSend() that tests only that there is a socket
_scheduleSendAnyState(sk) ==
    IF _socket = 0
    THEN [timer |-> _sendTimer, timeouts |-> sendTimeouts, armed |-> FALSE]
    ELSE IF _sendTimer
    THEN [timer |-> _sendTimer, timeouts |-> sendTimeouts, armed |-> FALSE]
    ELSE [timer |-> TRUE, timeouts |-> sendTimeouts + 1, armed |-> TRUE]

\* _scheduleSend(): the timer handle and the pending callbacks afterwards
_scheduleSend(sk) ==
    IF _socket = 0 \/ sk[_socket].readyState # OPEN
    THEN [timer |-> _sendTimer, timeouts |-> sendTimeouts, armed |-> FALSE]
    ELSE IF _sendTimer
    THEN [timer |-> _sendTimer, timeouts |-> sendTimeouts, armed |-> FALSE]
    ELSE [timer |-> TRUE, timeouts |-> sendTimeouts + 1, armed |-> TRUE]

\* _sendUpdate(): the sockets afterwards
_sendUpdate(sk) ==
    IF _socket = 0 \/ sk[_socket].readyState # OPEN
    THEN sk
    ELSE SockSend(sk, _socket, UpdatePayload)

\* connect(), shared shape of both classes
connect ==
    /\ _closedManually' = FALSE
    /\ connectionStatusRef' = "connecting"
    /\ socks' = Append(socks, NewWebSocket)
    /\ _socket' = Len(socks) + 1

UserConstructed ==
    /\ role = "user"
    /\ roomCode = "room"
    /\ \E a \in CtorArgs : /\ nickname = (IF a[1] = "" THEN "guest" ELSE a[1])
                           /\ password = a[2]
    /\ xRef = NumberRef(UnsetCoord)
    /\ yRef = NumberRef(UnsetCoord)
    /\ thetaRef = NumberRef(0)
    /\ colorRef = NumberRef(0)
    /\ connectionStatusRef = "connecting"
    /\ socks = <<NewWebSocket>>
    /\ _socket = 1
    /\ _closedManually = FALSE
    /\ _sendTimer = FALSE

\* an 'open' listener that identifies itself but does not push the state
UserOnOpenNoFlush(s) ==
    /\ role = "user"
    /\ socks[s].readyState = CONNECTING
    /\ ~socks[s].closeFired
    /\ socks' = SockSend([socks EXCEPT ![s].readyState = OPEN], s, UserHello)
    /\ connectionStatusRef' = "open"
    /\ UNCHANGED <<role, roomCode, nickname, password, xRef, yRef, thetaRef, colorRef,
                   _socket, _closedManually, reconnectTimeouts, penRoomMounted,
                   destroyed, muts, lastUpdate, _sendTimer, sendTimeouts, winMuts,
                   winSends, physVars, obsVars, roomVars, timerVars>>

\* 'open' listener of the socket created by UserRoomState.connect
UserOnOpen(s) ==
    /\ role = "user"
    /\ socks[s].readyState = CONNECTING
    /\ ~socks[s].closeFired
    /\ LET opened == [socks EXCEPT ![s].readyState = OPEN]
           helloed == SockSend(opened, s, UserHello)
           sch == _scheduleSend(helloed)
       IN  /\ socks' = helloed
           /\ _sendTimer' = sch.timer
           /\ sendTimeouts' = sch.timeouts
           /\ winMuts' = IF sch.armed THEN 0 ELSE winMuts
           /\ winSends' = IF sch.armed THEN 0 ELSE winSends
    /\ connectionStatusRef' = "open"
    /\ UNCHANGED <<role, roomCode, nickname, password, xRef, yRef, thetaRef, colorRef,
                   _socket, _closedManually, reconnectTimeouts, penRoomMounted,
                   destroyed, muts, lastUpdate,
                   physVars, obsVars, roomVars, timerVars>>

\* 'close' listener
UserOnClose(s) ==
    /\ role = "user"
    /\ ~socks[s].closeFired
    /\ connectionStatusRef' = "closed"
    /\ socks' = [socks EXCEPT ![s].readyState = CLOSED,
                              ![s].closeFired = TRUE,
                              ![s].flagAtClose = _closedManually,
                              ![s].sched = IF ~_closedManually THEN @ + 1 ELSE @]
    /\ reconnectTimeouts' = IF ~_closedManually
                            THEN Append(reconnectTimeouts, RECONNECT_DELAY)
                            ELSE reconnectTimeouts
    /\ UNCHANGED <<role, roomCode, nickname, password, xRef, yRef, thetaRef, colorRef,
                   _socket, _closedManually, _sendTimer, sendTimeouts, penRoomMounted,
                   destroyed, muts, winMuts, winSends, lastUpdate,
                   physVars, obsVars, roomVars, timerVars>>

\* an 'error' listener that also schedules a retry of its own
UserOnErrorRetries(s) ==
    /\ role = "user"
    /\ ~socks[s].closeFired
    /\ ~socks[s].errorFired
    /\ connectionStatusRef' = "error"
    /\ socks' = [SockCloseCall(socks, s) EXCEPT ![s].errorFired = TRUE,
                                                ![s].sched = IF ~_closedManually THEN @ + 1 ELSE @]
    /\ reconnectTimeouts' = IF ~_closedManually
                            THEN Append(reconnectTimeouts, RECONNECT_DELAY)
                            ELSE reconnectTimeouts
    /\ UNCHANGED <<role, roomCode, nickname, password, xRef, yRef, thetaRef, colorRef,
                   _socket, _closedManually, _sendTimer, sendTimeouts,
                   penRoomMounted, destroyed, muts, winMuts, winSends, lastUpdate,
                   physVars, obsVars, roomVars, timerVars>>

\* an 'error' listener that connects again at once
UserOnErrorConnects(s) ==
    /\ role = "user"
    /\ ~socks[s].closeFired
    /\ ~socks[s].errorFired
    /\ Len(socks) < MaxSockets
    /\ _closedManually' = FALSE
    /\ connectionStatusRef' = "connecting"
    /\ socks' = Append([SockCloseCall(socks, s) EXCEPT ![s].errorFired = TRUE], NewWebSocket)
    /\ _socket' = Len(socks) + 1
    /\ UNCHANGED <<role, roomCode, nickname, password, xRef, yRef, thetaRef, colorRef,
                   _sendTimer, sendTimeouts, reconnectTimeouts,
                   penRoomMounted, destroyed, muts, winMuts, winSends, lastUpdate,
                   physVars, obsVars, roomVars, timerVars>>

\* 'error' listener
UserOnError(s) ==
    /\ role = "user"
    /\ ~socks[s].closeFired
    /\ ~socks[s].errorFired
    /\ connectionStatusRef' = "error"
    /\ socks' = [SockCloseCall(socks, s) EXCEPT ![s].errorFired = TRUE]
    /\ UNCHANGED <<role, roomCode, nickname, password, xRef, yRef, thetaRef, colorRef,
                   _socket, _closedManually, _sendTimer, sendTimeouts, reconnectTimeouts,
                   penRoomMounted, destroyed, muts, winMuts, winSends, lastUpdate,
                   physVars, obsVars, roomVars, timerVars>>

\* the retry timer set by the 'close' listener fires: () => this.connect()
UserReconnect ==
    /\ role = "user"
    /\ reconnectTimeouts # <<>>
    /\ Len(socks) < MaxSockets
    /\ reconnectTimeouts' = Tail(reconnectTimeouts)
    /\ connect
    /\ UNCHANGED <<role, roomCode, nickname, password, xRef, yRef, thetaRef, colorRef,
                   _sendTimer, sendTimeouts, penRoomMounted, destroyed, muts,
                   winMuts, winSends, lastUpdate,
                   physVars, obsVars, roomVars, timerVars>>

\* the debounce timer fires: this._sendTimer = null; this._sendUpdate()
UserSendTimer ==
    /\ role = "user"
    /\ sendTimeouts > 0
    /\ sendTimeouts' = sendTimeouts - 1
    /\ _sendTimer' = FALSE
    /\ socks' = _sendUpdate(socks)
    /\ winSends' = IF socks' # socks THEN winSends + 1 ELSE winSends
    /\ lastUpdate' = IF socks' # socks THEN [sock |-> _socket, msg |-> UpdatePayload]
                     ELSE lastUpdate
    /\ UNCHANGED <<role, roomCode, nickname, password, xRef, yRef, thetaRef, colorRef,
                   connectionStatusRef, _socket, _closedManually, reconnectTimeouts,
                   penRoomMounted, destroyed, muts, winMuts,
                   physVars, obsVars, roomVars, timerVars>>

\* the watchers of _wireWatches run after refs were written
RunWatches(changed) ==
    LET sch == IF changed THEN _scheduleSend(socks)
               ELSE [timer |-> _sendTimer, timeouts |-> sendTimeouts, armed |-> FALSE]
    IN  /\ _sendTimer' = sch.timer
        /\ sendTimeouts' = sch.timeouts
        /\ winMuts' = IF sch.armed THEN 1
                      ELSE IF changed /\ _sendTimer THEN winMuts + 1 ELSE winMuts
        /\ winSends' = IF sch.armed THEN 0 ELSE winSends

\* PenRoom.vue updateKinematics(): commits theta and the clamped position
PenRoomCommit(px, py, th) ==
    /\ xRef' = NumberRef(clamp(px, 0, Milli))
    /\ yRef' = NumberRef(clamp(py, 0, Milli))
    /\ thetaRef' = NumberRef(th)
    /\ RunWatches(<<xRef', yRef', thetaRef'>> # <<xRef, yRef, thetaRef>>)

\* PenRoom.vue onMounted: seeds the base position from the refs, first pass
PenRoomOnMounted ==
    /\ role = "user"
    /\ ~penRoomMounted
    /\ penRoomMounted' = TRUE
    /\ PenRoomCommit(ToNumber(xRef), ToNumber(yRef), 0)
    /\ UNCHANGED <<role, roomCode, nickname, password, colorRef, connectionStatusRef,
                   _socket, _closedManually, socks, reconnectTimeouts, destroyed, muts, lastUpdate,
                   physVars, obsVars, roomVars, timerVars>>

\* PenRoom.vue setBaseFromClientXY(): a pointer event
PenRoomPointer(px, py, th) ==
    /\ role = "user"
    /\ penRoomMounted
    /\ muts < MaxMut
    /\ muts' = muts + 1
    /\ PenRoomCommit(px, py, th)
    /\ UNCHANGED <<role, roomCode, nickname, password, colorRef, connectionStatusRef,
                   _socket, _closedManually, socks, reconnectTimeouts, penRoomMounted,
                   destroyed, lastUpdate,
                   physVars, obsVars, roomVars, timerVars>>

\* PenRoom.vue onColorChange(): the select's value is the option index as a string
PenRoomOnColorChange(idx) ==
    /\ role = "user"
    /\ penRoomMounted
    /\ muts < MaxMut
    /\ muts' = muts + 1
    /\ colorRef' = StringRef(idx)
    /\ RunWatches(colorRef' # colorRef)
    /\ UNCHANGED <<role, roomCode, nickname, password, xRef, yRef, thetaRef,
                   connectionStatusRef, _socket, _closedManually, socks,
                   reconnectTimeouts, penRoomMounted, destroyed, lastUpdate,
                   physVars, obsVars, roomVars, timerVars>>

\* a destroy() that publishes 'idle'
UserDestroyToIdle ==
    /\ role = "user"
    /\ ~destroyed
    /\ destroyed' = TRUE
    /\ _closedManually' = TRUE
    /\ _sendTimer' = FALSE
    /\ sendTimeouts' = IF _sendTimer THEN sendTimeouts - 1 ELSE sendTimeouts
    /\ socks' = IF _socket # 0 THEN SockCloseCall(socks, _socket) ELSE socks
    /\ _socket' = 0
    /\ connectionStatusRef' = "idle"
    /\ UNCHANGED <<role, roomCode, nickname, password, xRef, yRef, thetaRef, colorRef,
                   reconnectTimeouts, penRoomMounted, muts, winMuts, winSends, lastUpdate,
                   physVars, obsVars, roomVars, timerVars>>

\* UserRoomState.destroy()
UserDestroy ==
    /\ role = "user"
    /\ ~destroyed
    /\ destroyed' = TRUE
    /\ _closedManually' = TRUE
    /\ _sendTimer' = FALSE
    /\ sendTimeouts' = IF _sendTimer THEN sendTimeouts - 1 ELSE sendTimeouts
    /\ socks' = IF _socket # 0 THEN SockCloseCall(socks, _socket) ELSE socks
    /\ _socket' = 0
    /\ connectionStatusRef' = "closed"
    /\ UNCHANGED <<role, roomCode, nickname, password, xRef, yRef, thetaRef, colorRef,
                   reconnectTimeouts, penRoomMounted, muts, winMuts, winSends, lastUpdate,
                   physVars, obsVars, roomVars, timerVars>>

----------------------------------------------------------------------------
\* OBSRoomState

ObsHello == [type |-> "hello", role |-> "obs", roomCode |-> roomCode]

ObsConstructed ==
    /\ role = "obs"
    /\ roomCode = "room"
    /\ nickname = "guest"
    /\ password = "undefined"
    /\ xRef = NumberRef(UnsetCoord)
    /\ yRef = NumberRef(UnsetCoord)
    /\ thetaRef = NumberRef(0)
    /\ colorRef = NumberRef(0)
    /\ connectionStatusRef = "connecting"
    /\ socks = <<NewWebSocket>>
    /\ _socket = 1
    /\ _closedManually = FALSE
    /\ _sendTimer = FALSE

ObsOnOpen(s) ==
    /\ role = "obs"
    /\ socks[s].readyState = CONNECTING
    /\ ~socks[s].closeFired
    /\ connectionStatusRef' = "open"
    /\ socks' = SockSend([socks EXCEPT ![s].readyState = OPEN], s, ObsHello)
    /\ UNCHANGED <<role, roomCode, nickname, password, xRef, yRef, thetaRef, colorRef,
                   _socket, _closedManually, _sendTimer, sendTimeouts, reconnectTimeouts,
                   penRoomMounted, destroyed, muts, winMuts, winSends, lastUpdate,
                   physVars, obsVars, roomVars, timerVars>>

ObsOnClose(s) ==
    /\ role = "obs"
    /\ ~socks[s].closeFired
    /\ connectionStatusRef' = "closed"
    /\ socks' = [socks EXCEPT ![s].readyState = CLOSED,
                              ![s].closeFired = TRUE,
                              ![s].flagAtClose = _closedManually,
                              ![s].sched = IF ~_closedManually THEN @ + 1 ELSE @]
    /\ reconnectTimeouts' = IF ~_closedManually
                            THEN Append(reconnectTimeouts, RECONNECT_DELAY)
                            ELSE reconnectTimeouts
    /\ UNCHANGED <<role, roomCode, nickname, password, xRef, yRef, thetaRef, colorRef,
                   _socket, _closedManually, _sendTimer, sendTimeouts, penRoomMounted,
                   destroyed, muts, winMuts, winSends, lastUpdate,
                   physVars, obsVars, roomVars, timerVars>>

ObsOnError(s) ==
    /\ role = "obs"
    /\ ~socks[s].closeFired
    /\ ~socks[s].errorFired
    /\ connectionStatusRef' = "error"
    /\ socks' = [SockCloseCall(socks, s) EXCEPT ![s].errorFired = TRUE]
    /\ UNCHANGED <<role, roomCode, nickname, password, xRef, yRef, thetaRef, colorRef,
                   _socket, _closedManually, _sendTimer, sendTimeouts, reconnectTimeouts,
                   penRoomMounted, destroyed, muts, winMuts, winSends, lastUpdate,
                   physVars, obsVars, roomVars, timerVars>>

ObsReconnect ==
    /\ role = "obs"
    /\ reconnectTimeouts # <<>>
    /\ Len(socks) < MaxSockets
    /\ reconnectTimeouts' = Tail(reconnectTimeouts)
    /\ connect
    /\ UNCHANGED <<role, roomCode, nickname, password, xRef, yRef, thetaRef, colorRef,
                   _sendTimer, sendTimeouts, penRoomMounted, destroyed, muts,
                   winMuts, winSends, lastUpdate,
                   physVars, obsVars, roomVars, timerVars>>

\* OBSRoomState.destroy()
ObsDestroy ==
    /\ role = "obs"
    /\ ~destroyed
    /\ destroyed' = TRUE
    /\ _closedManually' = TRUE
    /\ socks' = IF _socket # 0 THEN SockCloseCall(socks, _socket) ELSE socks
    /\ _socket' = 0
    /\ _users' = <<>>
    /\ usersListRef' = <<>>
    /\ connectionStatusRef' = "closed"
    /\ UNCHANGED <<role, roomCode, nickname, password, xRef, yRef, thetaRef, colorRef,
                   _sendTimer, sendTimeouts, reconnectTimeouts, penRoomMounted, muts,
                   winMuts, winSends, lastUpdate, roomDetails, reloads, frames, lastFrame,
                   physVars, roomVars, timerVars>>

----------------------------------------------------------------------------
\* The connection instance of one page

\* no engine is constructed while the connection is studied
NoEngine ==
    /\ _theta = 0
    /\ _omega = 0
    /\ _target = 0
    /\ _prevX = 0
    /\ _vxFilt = 0
    /\ _forceEmit = FALSE
    /\ _stopped = FALSE
    /\ _lastEmitTime = 0
    /\ _lastEmittedThetaDeg = NumberRef(0)
    /\ _lastTick = 0
    /\ _rafId = 0
    /\ frameMs = 0
    /\ settling = FALSE
    /\ ticks = 0
    /\ moves = 0
    /\ triggers = 0
    /\ emits = 0
    /\ stillMs = 0
    /\ staleTicks = 0

Undefined == "undefined"
\* JSON values: null, a missing (undefined) field, an array, a string
JNull == [t |-> "null"]
JMissing == [t |-> "undefined"]
JArray(v) == [t |-> "array", v |-> v]
JString(v) == [t |-> "string", text |-> v]
NoFrame == [ok |-> FALSE, value |-> JNull]

\* no OBSRoom component exists
\* a | b of two non-negative integers
RECURSIVE BitOr(_, _)
BitOr(a, b) ==
    IF a = 0 THEN b
    ELSE IF b = 0 THEN a
    ELSE (IF a % 2 = 1 \/ b % 2 = 1 THEN 1 ELSE 0) + 2 * BitOr(a \div 2, b \div 2)

\* the constructor's _debounceMs for its argument (default parameter 0):
\* Math.max(0, debounceMs | 5)
DebounceOf(arg) ==
    LET d == IF arg.t = "undefined" THEN 0 ELSE arg.v
        ored == BitOr(d, 5)
    IN  IF ored < 0 THEN 0 ELSE ored

\* RoomView.vue constructs the channel without a debounceMs; the length of
\* the window is not followed
NoDebounce ==
    /\ debounceMs = JMissing
    /\ _debounceMs = DebounceOf(JMissing)
    /\ sendDue = -1
    /\ waited = -1

NoRoom ==
    /\ roomPhase = "none"
    /\ subset = <<>>
    /\ rrTimer = 0
    /\ intervals = {}
    /\ stageW = 1
    /\ stageH = 1
    /\ displayed = <<>>

\* no roster has arrived and no room settings are followed
NoDisplay ==
    /\ _users = <<>>
    /\ usersListRef = <<>>
    /\ roomDetails = JMissing
    /\ reloads = 0
    /\ frames = 0
    /\ lastFrame = NoFrame
    /\ NoRoom

ChanInit ==
    /\ UserConstructed \/ ObsConstructed
    /\ NoDisplay
    /\ NoDebounce
    /\ reconnectTimeouts = <<>>
    /\ sendTimeouts = 0
    /\ penRoomMounted = FALSE
    /\ destroyed = FALSE
    /\ muts = 0
    /\ winMuts = 0
    /\ winSends = 0
    /\ lastUpdate = [sock |-> 0, msg |-> NoMsg]
    /\ NoEngine

ChanNext ==
    \/ \E s \in 1..Len(socks) : UserOnOpen(s)
    \/ \E s \in 1..Len(socks) : UserOnClose(s)
    \/ \E s \in 1..Len(socks) : UserOnError(s)
    \/ UserReconnect
    \/ UserSendTimer
    \/ PenRoomOnMounted
    \/ \E p \in PointerEvents : PenRoomPointer(p[1], p[2], p[3])
    \/ \E idx \in ColorIdx : PenRoomOnColorChange(idx)
    \/ UserDestroy
    \/ \E s \in 1..Len(socks) : ObsOnOpen(s)
    \/ \E s \in 1..Len(socks) : ObsOnClose(s)
    \/ \E s \in 1..Len(socks) : ObsOnError(s)
    \/ ObsReconnect
    \/ ObsDestroy

SpecChan == ChanInit /\ [][ChanNext]_vars

----------------------------------------------------------------------------
\* PenPhysics (default options; fixed point: thousandths of a degree,
\* 1e-5 rad, thousandths of the stage width, milliseconds)

\* Bounds of the exploration
MaxTicks == 7
MaxMoves == 2
MaxTriggers == 1
\* a run that is followed to rest takes its inputs in the first SettleTicks frames
SettleTicks == 4
SettleMoves == 2
SettleMs == 3500
QuietMs == 500
PageTime == 1000                \* performance.now() when the engine is constructed
FrameRates == {40, 60}          \* frame periods of the display, ms
PointerX == {0, 500, 1000}      \* positions a pointer move can commit to xRef

NaN == [t |-> "NaN", v |-> 0]
IsFinite(r) == r.t = "number"
\* values of xRef that are not a finite number: NaN, and a numeric string
BadX == {NaN, StringRef(900)}

\* quotient rounded towards zero
TDiv(a, b) == IF a >= 0 THEN a \div b ELSE -((-a) \div b)
Abs(a) == IF a < 0 THEN -a ELSE a

\* constructor defaults
maxAngleDeg == 28
velocityGainDegPerUnitPerS == 22
velocityFilterTauMs == 50
naturalFrequencyX2 == 11        \* wn = 5.5 rad/s
dampingRatioX4 == 1             \* zeta = 0.25
minEmitDeltaDegMilli == 250
restThetaDegMilli == 250
restOmegaDegPerS == 2
updateInterval == 100
MaxDtMs == 50

_maxAngleDeg == maxAngleDeg * Milli
\* _k = wn * wn and _c = 2 * zeta * wn, both times four
_k4 == naturalFrequencyX2 * naturalFrequencyX2
_c4 == dampingRatioX4 * naturalFrequencyX2

\* d * (Math.PI / 180): thousandths of a degree to 1e-5 rad
_degToRad(d) == TDiv(d * 17453, 10000)
\* r * (180 / Math.PI): 1e-5 rad to thousandths of a degree
_radToDeg(r) == TDiv(r * 10000, 17453)

_restTheta == _degToRad(restThetaDegMilli)
_restOmega == _degToRad(restOmegaDegPerS * Milli)

\* _readX(): a finite number clamped to [0, 1], else the centre
_readX(ref) ==
    LET x == IF IsFinite(ref) THEN ref.v ELSE Milli \div 2
    IN  IF x < 0 THEN 0 ELSE IF x > Milli THEN Milli ELSE x

\* no clamp of theta
NoHardClamp(th, om) == [theta |-> th, omega |-> om]

\* the hard clamp of theta to +/- maxRad, with the speed it leaves
HardClamp(th, om) ==
    LET maxRad == _degToRad(_maxAngleDeg)
    IN  IF th > maxRad THEN [theta |-> maxRad, omega |-> IF om > 0 THEN 0 ELSE om]
        ELSE IF th < -maxRad THEN [theta |-> -maxRad, omega |-> IF om < 0 THEN 0 ELSE om]
        ELSE [theta |-> th, omega |-> om]

\* the integration step of _tick for a frame gap of dtMs (already capped)
Integrate(dtMs) ==
    LET x == _readX(xRef)
        rawVx == TDiv((x - _prevX) * 1000, dtMs)
        vxFilt == _vxFilt + TDiv((rawVx - _vxFilt) * dtMs, velocityFilterTauMs + dtMs)
        targetDeg == clamp(-velocityGainDegPerUnitPerS * vxFilt, -_maxAngleDeg, _maxAngleDeg)
        target == _degToRad(targetDeg)
        torque == TDiv(_k4 * (target - _theta) - _c4 * _omega, 4)
        omega == _omega + TDiv(torque * dtMs, 1000)
        theta == _theta + TDiv(omega * dtMs, 1000)
        cl == HardClamp(theta, omega)
    IN  [x |-> x, rawVx |-> rawVx, vxFilt |-> vxFilt, target |-> target,
         theta |-> cl.theta, omega |-> cl.omega]

AtRest(omega, target, theta) ==
    Abs(omega) < _restOmega /\ Abs(target - theta) < _restTheta

\* an emission rule that does not look at the rest state
ShouldEmitIgnoringRest(shouldForce, atRest, now, thetaDeg) ==
    IF shouldForce THEN TRUE
    ELSE LET elapsed == now - _lastEmitTime
             changedEnough == \/ ~IsFinite(_lastEmittedThetaDeg)
                              \/ Abs(thetaDeg - _lastEmittedThetaDeg.v) >= minEmitDeltaDegMilli
         IN  elapsed >= updateInterval /\ changedEnough

\* an emission rule that does not look at the time of the last emission
ShouldEmitUnthrottled(shouldForce, atRest, now, thetaDeg) ==
    IF shouldForce THEN TRUE
    ELSE IF ~atRest
    THEN \/ ~IsFinite(_lastEmittedThetaDeg)
         \/ Abs(thetaDeg - _lastEmittedThetaDeg.v) >= minEmitDeltaDegMilli
    ELSE FALSE

\* the emission rule of _tick
ShouldEmit(shouldForce, atRest, now, thetaDeg) ==
    IF shouldForce THEN TRUE
    ELSE IF ~atRest
    THEN LET elapsed == now - _lastEmitTime
             changedEnough == \/ ~IsFinite(_lastEmittedThetaDeg)
                              \/ Abs(thetaDeg - _lastEmittedThetaDeg.v) >= minEmitDeltaDegMilli
         IN  elapsed >= updateInterval /\ changedEnough
    ELSE FALSE

PhysConstructed ==
    /\ _theta = 0
    /\ _omega = 0
    /\ _target = 0
    /\ _prevX = _readX(xRef)
    /\ _vxFilt = 0
    /\ _forceEmit = FALSE
    /\ _stopped = FALSE
    /\ _lastEmitTime = 0
    /\ _lastEmittedThetaDeg = NaN
    /\ _lastTick = PageTime
    /\ _rafId = 1

\* inputs arrive during the first frames of a run
ActiveTicks == IF settling THEN SettleTicks ELSE MaxTicks
ActiveMoves == IF settling THEN SettleMoves ELSE MaxMoves

\* updateKinematics()
updateKinematics ==
    /\ role = "physics"
    /\ ticks < ActiveTicks
    /\ triggers < MaxTriggers
    /\ triggers' = triggers + 1
    /\ _forceEmit' = TRUE
    /\ stillMs' = 0
    /\ UNCHANGED <<chanVars, obsVars, roomVars, _theta, _omega, _target, _prevX, _vxFilt, _stopped, _lastTick,
                   _rafId, _lastEmitTime, _lastEmittedThetaDeg, frameMs, settling, ticks, moves, emits,
                   staleTicks, timerVars>>

\* shutdown()
shutdown ==
    /\ role = "physics"
    /\ ticks < ActiveTicks
    /\ ~_stopped
    /\ _stopped' = TRUE
    /\ _rafId' = 0
    /\ UNCHANGED <<chanVars, obsVars, roomVars, _theta, _omega, _target, _prevX, _vxFilt, _forceEmit, _lastTick,
                   _lastEmitTime, _lastEmittedThetaDeg, frameMs, settling, ticks, moves, triggers, emits,
                   stillMs, staleTicks, timerVars>>

\* a pointer move of the page commits a new x to the user state
PhysPointerMove(x) ==
    /\ role = "physics"
    /\ ticks < ActiveTicks
    /\ moves < ActiveMoves
    /\ xRef # NumberRef(x)
    /\ xRef' = NumberRef(x)
    /\ moves' = moves + 1
    /\ stillMs' = 0
    /\ UNCHANGED <<obsVars, roomVars, role, roomCode, nickname, password, yRef, thetaRef, colorRef,
                   connectionStatusRef, _socket, _closedManually, _sendTimer, socks,
                   reconnectTimeouts, sendTimeouts, penRoomMounted, destroyed,
                   muts, winMuts, winSends, lastUpdate,
                   _theta, _omega, _target, _prevX, _vxFilt, _forceEmit, _stopped, _lastTick,
                   _rafId, _lastEmitTime, _lastEmittedThetaDeg, frameMs, settling, ticks, triggers, emits,
                   staleTicks, timerVars>>

\* the host leaves a value in xRef that is not a finite number
PhysInputLost(v) ==
    /\ role = "physics"
    /\ ticks < ActiveTicks
    /\ moves < ActiveMoves
    /\ xRef # v
    /\ xRef' = v
    /\ moves' = moves + 1
    /\ stillMs' = 0
    /\ UNCHANGED <<obsVars, roomVars, role, roomCode, nickname, password, yRef, thetaRef, colorRef,
                   connectionStatusRef, _socket, _closedManually, _sendTimer, socks,
                   reconnectTimeouts, sendTimeouts, penRoomMounted, destroyed,
                   muts, winMuts, winSends, lastUpdate,
                   _theta, _omega, _target, _prevX, _vxFilt, _forceEmit, _stopped, _lastTick,
                   _rafId, _lastEmitTime, _lastEmittedThetaDeg, frameMs, settling, ticks, triggers, emits,
                   staleTicks, timerVars>>

\* _tick: the frame gap is not positive, the frame is skipped
TickSkip(now) ==
    /\ _lastTick' = now
    /\ _rafId' = 1
    /\ UNCHANGED <<xRef, yRef, thetaRef, colorRef, _theta, _omega, _target, _prevX,
                   _vxFilt, _forceEmit, _stopped, _lastEmitTime,
                   _lastEmittedThetaDeg, emits, stillMs>>

\* _tick: sampling, integration, emission rules and the next frame request
TickStep(now, dt) ==
    LET st == Integrate(dt)
        thetaDeg == _radToDeg(st.theta)
        atRest == AtRest(st.omega, st.target, st.theta)
        shouldEmit == ShouldEmit(_forceEmit, atRest, now, thetaDeg)
    IN  /\ _prevX' = st.x
        /\ _vxFilt' = st.vxFilt
        /\ _target' = st.target
        /\ _omega' = st.omega
        /\ _theta' = st.theta
        /\ _forceEmit' = FALSE
        /\ _lastEmitTime' = IF shouldEmit THEN now ELSE _lastEmitTime
        /\ _lastEmittedThetaDeg' = IF shouldEmit THEN NumberRef(thetaDeg)
                                   ELSE _lastEmittedThetaDeg
        \* onTheta: (thetaDeg) => { userRoomState.thetaRef.value = thetaDeg }
        /\ thetaRef' = IF shouldEmit THEN NumberRef(thetaDeg) ELSE thetaRef
        /\ emits' = IF shouldEmit THEN emits + 1 ELSE emits
        /\ _lastTick' = now
        /\ _rafId' = 1
        /\ stillMs' = IF stillMs < SettleMs + QuietMs THEN stillMs + dt ELSE stillMs
        /\ UNCHANGED <<xRef, yRef, colorRef, _stopped>>

\* _tick(now) without the test of _stopped
_tickNoStopCheck(gap) ==
    /\ role = "physics"
    /\ _rafId # 0 \/ _stopped
    /\ ticks < ActiveTicks \/ (settling /\ ~_stopped /\ stillMs < SettleMs + QuietMs)
    /\ ticks' = ticks + 1
    /\ staleTicks' = IF _stopped THEN staleTicks + 1 ELSE staleTicks
    /\ IF gap <= 0
       THEN TickSkip(_lastTick + gap)
       ELSE TickStep(_lastTick + gap, IF gap > MaxDtMs THEN MaxDtMs ELSE gap)
    /\ UNCHANGED <<obsVars, roomVars, role, roomCode, nickname, password, connectionStatusRef, _socket,
                   _closedManually, _sendTimer, socks, reconnectTimeouts, sendTimeouts,
                   penRoomMounted, destroyed, muts, winMuts, winSends, lastUpdate,
                   frameMs, settling, moves, triggers, timerVars>>

\* _tick(now), called by the browser with now = _lastTick + gap; a frame
\* callback that was already dispatched may still arrive after shutdown()
_tick(gap) ==
    /\ role = "physics"
    /\ _rafId # 0 \/ _stopped
    /\ ticks < ActiveTicks \/ (settling /\ ~_stopped /\ stillMs < SettleMs + QuietMs)
    /\ ticks' = ticks + 1
    /\ staleTicks' = IF _stopped THEN staleTicks + 1 ELSE staleTicks
    /\ IF _stopped
       THEN UNCHANGED <<xRef, yRef, thetaRef, colorRef, _theta, _omega, _target, _prevX,
                        _vxFilt, _forceEmit, _stopped, _lastTick, _rafId, _lastEmitTime,
                        _lastEmittedThetaDeg, emits, stillMs>>
       ELSE IF gap <= 0
       THEN TickSkip(_lastTick + gap)
       ELSE TickStep(_lastTick + gap, IF gap > MaxDtMs THEN MaxDtMs ELSE gap)
    /\ UNCHANGED <<obsVars, roomVars, role, roomCode, nickname, password, connectionStatusRef, _socket,
                   _closedManually, _sendTimer, socks, reconnectTimeouts, sendTimeouts,
                   penRoomMounted, destroyed, muts, winMuts, winSends, lastUpdate,
                   frameMs, settling, moves, triggers, timerVars>>

\* no connection object exists
NoConnection ==
    /\ roomCode = "room"
    /\ nickname = "guest"
    /\ password = "undefined"
    /\ xRef = NumberRef(UnsetCoord)
    /\ yRef = NumberRef(UnsetCoord)
    /\ thetaRef = NumberRef(0)
    /\ colorRef = NumberRef(0)
    /\ connectionStatusRef = "idle"
    /\ socks = <<>>
    /\ _socket = 0
    /\ _closedManually = FALSE
    /\ _sendTimer = FALSE
    /\ reconnectTimeouts = <<>>
    /\ sendTimeouts = 0
    /\ penRoomMounted = FALSE
    /\ destroyed = FALSE
    /\ muts = 0
    /\ winMuts = 0
    /\ winSends = 0
    /\ lastUpdate = [sock |-> 0, msg |-> NoMsg]

NoChannel == role = "physics" /\ NoConnection

EngineInit ==
    /\ NoChannel
    /\ NoDisplay
    /\ NoDebounce
    /\ PhysConstructed
    /\ frameMs \in FrameRates
    /\ ticks = 0
    /\ moves = 0
    /\ triggers = 0
    /\ emits = 0
    /\ stillMs = 0
    /\ staleTicks = 0

\* the first frame may carry a timestamp not later than the construction time
FrameGaps == IF ticks = 0 THEN {0, frameMs} ELSE {frameMs}

PhysNext ==
    \/ updateKinematics
    \/ shutdown
    \/ \E x \in PointerX : PhysPointerMove(x)
    \/ \E v \in BadX : PhysInputLost(v)
    \/ \E gap \in FrameGaps : _tick(gap)

PhysInit == EngineInit /\ settling = FALSE

SpecPhys == PhysInit /\ [][PhysNext]_vars

\* the same engine with finite input, followed until it has come to rest
SettleNext ==
    \/ updateKinematics
    \/ shutdown
    \/ \E x \in PointerX : PhysPointerMove(x)
    \/ \E gap \in FrameGaps : _tick(gap)

SettleInit == EngineInit /\ settling = TRUE

SpecSettle == SettleInit /\ [][SettleNext]_vars

----------------------------------------------------------------------------
\* OBSRoom.vue: the stage of the display page (positions in thousandths of a
\* pixel, opacities in thousandths; colours are not followed)

\* Bounds of the exploration
MaxRoster == 4
MaxCap == 2

\* inputs
\* user records as the aggregator broadcasts them; x and y need not be in [0, 1]
Names == <<"guest", "ann", "bob", "cy", "dee", "eve">>
User(j) == [nickname |-> Names[j], x |-> (j - 1) * 300, y |-> 700 - j * 200,
            theta |-> (j - 3) * 6 * Milli]
Roster(n, k) == [i \in 1..n |-> User(((i + k - 1) % Len(Names)) + 1)]
Rosters == {Roster(n, k) : n \in 0..MaxRoster, k \in {0, 1}}
Thresholds == {0, 3, 5}
RoomSettings ==
    [maxConcurrent : 0..MaxCap, duplicateUsers : {TRUE}, duplicationThreshold : Thresholds]
    \cup [maxConcurrent : 0..MaxCap, duplicateUsers : {FALSE}, duplicationThreshold : {5}]
StageSizes == {<<1920, 1080>>, <<1280, 720>>}

\* Math.floor((roomDetails.penScale || 1) * 256)
spriteSize == 256

Range(f) == {f[i] : i \in DOMAIN f}
Min(a, b) == IF a < b THEN a ELSE b
Max(a, b) == IF a > b THEN a ELSE b
CeilDiv(a, b) == (a + b - 1) \div b

clamp01(v) == Max(0, Min(Milli, v))

\* cosine and sine of 0, 72, 144, 216 and 288 degrees, in thousandths
CosMilli == <<1000, 309, -809, -809, 309>>
SinMilli == <<0, 951, 588, -588, -951>>

\* an offset that looks at the duplicate index only
offsetForDuplicateOnly(i, d) ==
    LET a == (d % 5) + 1
        radius == 180 + (d % 3) * 50
    IN  [dx |-> TDiv(radius * CosMilli[a], Milli), dy |-> TDiv(radius * SinMilli[a], Milli)]

\* offsetFor(i, d), in thousandths of the stage
offsetFor(i, d) ==
    LET a == ((i + d) % 5) + 1
        radius == 180 + ((i + d) % 3) * 50
    IN  [dx |-> TDiv(radius * CosMilli[a], Milli), dy |-> TDiv(radius * SinMilli[a], Milli)]

\* a duplicate key that leaves out the index of the entry
DuplicateKeyByDuplicate(i, d) == "u-d" \o ToString(d)

\* `u-${i}` and `u-${i}-d${d}`
OriginalKey(i) == "u-" \o ToString(i)
DuplicateKey(i, d) == "u-" \o ToString(i) \o "-d" \o ToString(d)

\* a duplicate count that rounds the share of the deficit down
perUserOfFloor(threshold, count) ==
    LET deficit == Max(0, threshold - count)
    IN  Min(3, Max(1, deficit \div Max(1, count)))

\* the number of duplicates per user once duplication applies
perUserOf(threshold, count) ==
    LET deficit == Max(0, threshold - count)
    IN  Min(3, Max(1, CeilDiv(deficit, Max(1, count))))

\* the slots makeDuplicates emits for entry i (from 0) of baseUsers
SlotsOf(u, i, perUser, w, h) ==
    <<[u EXCEPT !.opacity = 1000, !.key = OriginalKey(i)]>> \o
    [d1 \in 1..perUser |->
        LET off == offsetFor(i, d1 - 1)
        IN  [u EXCEPT !.x = u.x + off.dx * w,
                      !.y = u.y + off.dy * h,
                      !.opacity = 800,
                      !.key = DuplicateKey(i, d1 - 1)]]

RECURSIVE ExpandFrom(_, _, _, _, _)
ExpandFrom(baseUsers, i, perUser, w, h) ==
    IF i >= Len(baseUsers) THEN <<>>
    ELSE SlotsOf(baseUsers[i + 1], i, perUser, w, h)
         \o ExpandFrom(baseUsers, i + 1, perUser, w, h)

\* makeDuplicates(baseUsers) under the settings rd and the stage w x h
makeDuplicates(rd, baseUsers, w, h) ==
    LET dupeOn == rd.duplicateUsers
        threshold == rd.duplicationThreshold
        count == Len(baseUsers)
    IN  IF ~dupeOn \/ threshold <= 0 \/ count >= threshold
        THEN ExpandFrom(baseUsers, 0, 0, w, h)
        ELSE ExpandFrom(baseUsers, 0, perUserOf(threshold, count), w, h)

\* the draws of Math.floor(Math.random() * (i + 1)) for i = n, n - 1, .., 1
RECURSIVE DrawsUpTo(_)
DrawsUpTo(n) ==
    IF n <= 0 THEN {<<>>}
    ELSE {Append(f, j) : f \in DrawsUpTo(n - 1), j \in 0..n}
Draws(N) == DrawsUpTo(N - 1)

Swap(idxs, a, b) == [idxs EXCEPT ![a] = idxs[b], ![b] = idxs[a]]

\* a loop that copies idxs[j] to idxs[i] instead of exchanging the two
RECURSIVE ShuffleFromOverwrite(_, _, _)
ShuffleFromOverwrite(idxs, i, js) ==
    IF i <= 0 THEN idxs
    ELSE ShuffleFromOverwrite([idxs EXCEPT ![i + 1] = idxs[js[i] + 1]], i - 1, js)

\* the Fisher-Yates loop of pickSubset from position i (from 0) downwards
RECURSIVE ShuffleFrom(_, _, _)
ShuffleFrom(idxs, i, js) ==
    IF i <= 0 THEN idxs
    ELSE ShuffleFrom(Swap(idxs, i + 1, js[i] + 1), i - 1, js)

\* a subset taken from the end of a shuffle that never leaves an index in place
pickSubsetBiased(maxN, N, js) ==
    LET idxs == [k \in 1..N |-> k - 1]
        shuffled == ShuffleFrom(idxs, N - 1, [i \in 1..(N - 1) |-> js[i] % i])
    IN  SubSeq(shuffled, 1, Min(maxN, N))

\* pickSubset(maxN) on a roster of N users with the random draws js
pickSubset(maxN, N, js) ==
    LET idxs == [k \in 1..N |-> k - 1]
        shuffled == ShuffleFrom(idxs, N - 1, js)
    IN  SubSeq(shuffled, 1, Min(maxN, N))

\* a clearRR() that drops the handle without clearing the interval
clearRRKeepsInterval(timer, live) ==
    [rrTimer |-> 0, intervals |-> live]

\* clearRR()
clearRR(timer, live) ==
    IF timer # 0
    THEN [rrTimer |-> 0, intervals |-> {t \in live : t.id # timer}]
    ELSE [rrTimer |-> timer, intervals |-> live]

\* setInterval hands out a handle that is not in use
NewHandle(live) == CHOOSE h \in 1..(Cardinality(live) + 1) : \A t \in live : t.id # h

\* the values one call of pickSubset(maxN) can store for a roster of N users
Picks == [N \in 0..MaxRoster |-> [maxN \in 1..MaxCap |->
             {pickSubset(maxN, N, js) : js \in Draws(N)}]]

\* ensureRoundRobin() for the props (rd, users); picked is what its call of
\* pickSubset(maxN), if it makes one, stores
ensureRoundRobin(rd, users, picked) ==
    LET maxN == rd.maxConcurrent
        cl == clearRR(rrTimer, intervals)
        h == NewHandle(cl.intervals)
    IN  IF maxN = 0 \/ Len(users) <= maxN
        THEN [subset |-> <<>>, rrTimer |-> cl.rrTimer, intervals |-> cl.intervals]
        ELSE [subset |-> picked,
              rrTimer |-> h,
              intervals |-> cl.intervals \cup {[id |-> h, maxN |-> maxN]}]

\* the entries of users that pass the maxConcurrent filter, in roster order
RECURSIVE FilterFrom(_, _, _)
FilterFrom(users, i, chosenSet) ==
    IF i >= Len(users) THEN <<>>
    ELSE (IF i \in chosenSet THEN <<users[i + 1]>> ELSE <<>>)
         \o FilterFrom(users, i + 1, chosenSet)

\* the computed displayedPenlights
displayedPenlights(users, rd, sub, w, h) ==
    LET maxN == rd.maxConcurrent
        baseUsers == IF maxN # 0 /\ Len(users) > maxN
                     THEN FilterFrom(users, 0, Range(sub))
                     ELSE users
        slot(u, i) == [x |-> clamp01(u.x) * (w - spriteSize) + (spriteSize \div 2) * Milli,
                       y |-> clamp01(u.y) * (h - spriteSize) + (spriteSize * 800),
                       theta |-> u.theta,
                       nickname |-> u.nickname,
                       opacity |-> 1000,
                       key |-> "b-" \o ToString(i)]
    IN  makeDuplicates(rd, [i1 \in 1..Len(baseUsers) |-> slot(baseUsers[i1], i1 - 1)], w, h)

\* what the pickSubset call of ensureRoundRobin() can store, if it is made
PicksFor(rd, users) ==
    IF rd.maxConcurrent = 0 \/ Len(users) <= rd.maxConcurrent THEN {<<>>}
    ELSE Picks[Len(users)][rd.maxConcurrent]

\* the state the component holds after one of its handlers has run and the
\* template has been rendered again
RoomStep(us, rd, rr, w, h) ==
    /\ subset' = rr.subset
    /\ rrTimer' = rr.rrTimer
    /\ intervals' = rr.intervals
    /\ stageW' = w
    /\ stageH' = h
    /\ displayed' = displayedPenlights(us, rd, rr.subset, w, h)

RoomKeeps == [subset |-> subset, rrTimer |-> rrTimer, intervals |-> intervals]

\* onMounted: updateStageSize() measures the stage, then ensureRoundRobin()
OBSRoomOnMounted(sz) ==
    /\ role = "room"
    /\ roomPhase = "setup"
    /\ roomPhase' = "mounted"
    /\ \E picked \in PicksFor(roomDetails, usersListRef) :
          RoomStep(usersListRef, roomDetails,
                   ensureRoundRobin(roomDetails, usersListRef, picked), sz[1], sz[2])
    /\ UNCHANGED <<chanVars, physVars, obsVars, timerVars>>

\* the ResizeObserver calls updateStageSize()
OBSRoomResize(sz) ==
    /\ role = "room"
    /\ roomPhase = "mounted"
    /\ <<stageW, stageH>> # sz
    /\ RoomStep(usersListRef, roomDetails, RoomKeeps, sz[1], sz[2])
    /\ UNCHANGED <<chanVars, physVars, obsVars, roomPhase, timerVars>>

\* a users change that reaches the template without the watch having run
OBSRoomUsersNoWatch(us) ==
    /\ role = "room"
    /\ roomPhase = "mounted"
    /\ usersListRef' = us
    /\ _users' = us
    /\ RoomStep(us, roomDetails, RoomKeeps, stageW, stageH)
    /\ UNCHANGED <<chanVars, physVars, roomDetails, reloads, frames, lastFrame, roomPhase, timerVars>>

\* the parent passes a new users array: the watch runs ensureRoundRobin()
\* before the template is rendered
OBSRoomUsers(us) ==
    /\ role = "room"
    /\ roomPhase = "mounted"
    /\ usersListRef' = us
    /\ _users' = us
    /\ \E picked \in PicksFor(roomDetails, us) :
          RoomStep(us, roomDetails, ensureRoundRobin(roomDetails, us, picked), stageW, stageH)
    /\ UNCHANGED <<chanVars, physVars, roomDetails, reloads, frames, lastFrame, roomPhase, timerVars>>

\* the parent passes new room settings: the watch runs ensureRoundRobin()
OBSRoomDetails(rd) ==
    /\ role = "room"
    /\ roomPhase = "mounted"
    /\ roomDetails # rd
    /\ roomDetails' = rd
    /\ \E picked \in PicksFor(rd, usersListRef) :
          RoomStep(usersListRef, rd, ensureRoundRobin(rd, usersListRef, picked), stageW, stageH)
    /\ UNCHANGED <<chanVars, physVars, _users, usersListRef, reloads, frames, lastFrame, roomPhase, timerVars>>

\* a live interval fires: pickSubset(maxN) with the maxN it was created with
OBSRoomInterval(t) ==
    /\ role = "room"
    /\ t \in intervals
    /\ \E picked \in Picks[Len(usersListRef)][t.maxN] :
          IF roomPhase = "mounted"
          THEN RoomStep(usersListRef, roomDetails, [RoomKeeps EXCEPT !.subset = picked],
                        stageW, stageH)
          ELSE /\ subset' = picked
               /\ UNCHANGED <<rrTimer, intervals, stageW, stageH, displayed>>
    /\ UNCHANGED <<chanVars, physVars, obsVars, roomPhase, timerVars>>

\* onBeforeUnmount: clearRR(); the component renders nothing any more
OBSRoomBeforeUnmount ==
    /\ role = "room"
    /\ roomPhase = "mounted"
    /\ roomPhase' = "unmounted"
    /\ LET cl == clearRR(rrTimer, intervals)
       IN  /\ rrTimer' = cl.rrTimer
           /\ intervals' = cl.intervals
    /\ displayed' = <<>>
    /\ UNCHANGED <<chanVars, physVars, obsVars, subset, stageW, stageH, timerVars>>

\* setup of the component: the refs are created and the immediate watch has
\* run ensureRoundRobin() on the empty roster the page starts with
RoomInit ==
    /\ role = "room"
    /\ NoConnection
    /\ NoEngine
    /\ NoDebounce
    /\ _users = <<>>
    /\ usersListRef = <<>>
    /\ reloads = 0
    /\ frames = 0
    /\ lastFrame = NoFrame
    /\ roomDetails \in RoomSettings
    /\ roomPhase = "setup"
    /\ subset = <<>>
    /\ rrTimer = 0
    /\ intervals = {}
    /\ stageW = 1
    /\ stageH = 1
    /\ displayed = <<>>

RoomNext ==
    \/ \E sz \in StageSizes : OBSRoomOnMounted(sz)
    \/ \E sz \in StageSizes : OBSRoomResize(sz)
    \/ \E us \in Rosters : OBSRoomUsers(us)
    \/ \E rd \in RoomSettings : OBSRoomDetails(rd)
    \/ \E t \in intervals : OBSRoomInterval(t)
    \/ OBSRoomBeforeUnmount

SpecRoom == RoomInit /\ [][RoomNext]_vars

----------------------------------------------------------------------------
\* OBSRoomState: the messages of the aggregator

\* Bounds of the exploration
MaxFrames == 3

\* inputs: evt.data is a text JSON.parse rejects, or the text of a JSON value
SettingsA == [maxConcurrent |-> 2, duplicateUsers |-> TRUE, duplicationThreshold |-> 5]
SettingsB == [maxConcurrent |-> 0, duplicateUsers |-> FALSE, duplicationThreshold |-> 5]
Parsed(v) == [ok |-> TRUE, value |-> v]
Message(type, room, users, settings) ==
    Parsed([t |-> "object", type |-> type, room |-> room, users |-> users,
            settings |-> settings])
\* Array.isArray
IsArray(v) == v.t = "array"
Inbound ==
    {[ok |-> FALSE, value |-> JString("{type:")], Parsed(JNull)}
    \cup {Message("state", rm, JArray(us), JMissing) :
             rm \in {"room", "other"}, us \in {<<>>, Roster(1, 1), Roster(2, 0)}}
    \cup {Message("state", "room", JMissing, JMissing),
          Message("state", "room", JString("ann"), JMissing),
          Message("state", Undefined, JArray(Roster(1, 0)), JMissing),
          Message(Undefined, "room", JArray(Roster(1, 0)), JMissing),
          Message("ping", "room", JArray(Roster(1, 0)), JMissing),
          Message("roomSettings", Undefined, JMissing, SettingsB),
          Message("roomSettings", Undefined, JMissing, JMissing)}

\* msg?.type and the like: undefined for null and for a missing field
Field(v, name) ==
    IF v.t # "null" THEN v[name]
    ELSE IF name \in {"type", "room"} THEN Undefined ELSE JMissing

\* a test that takes the broadcast of any room
IsRosterForAnyRoom(msg) ==
    /\ Field(msg, "type") = "state"
    /\ IsArray(Field(msg, "users"))

\* the condition of the first if: a roster broadcast of this room
IsRosterFor(msg) ==
    /\ Field(msg, "type") = "state"
    /\ Field(msg, "room") = roomCode
    /\ IsArray(Field(msg, "users"))

\* a handler that appends the broadcast to the users it already has
HandleFrameMerging(frame) ==
    IF ~frame.ok
    THEN [users |-> _users, list |-> usersListRef, details |-> roomDetails, reload |-> 0]
    ELSE LET msg == frame.value
             isState == IsRosterFor(msg)
             isSettings == Field(msg, "type") = "roomSettings"
         IN  [users |-> IF isState THEN _users \o msg.users.v ELSE _users,
              list |-> IF isState THEN _users \o msg.users.v ELSE usersListRef,
              details |-> IF isSettings THEN msg.settings ELSE roomDetails,
              reload |-> IF isSettings THEN 1 ELSE 0]

\* the 'message' listener: what it leaves in the fields for the frame
HandleFrame(frame) ==
    IF ~frame.ok
    THEN [users |-> _users, list |-> usersListRef, details |-> roomDetails, reload |-> 0]
    ELSE LET msg == frame.value
             isState == IsRosterFor(msg)
             isSettings == Field(msg, "type") = "roomSettings"
         IN  [users |-> IF isState THEN msg.users.v ELSE _users,
              list |-> IF isState THEN msg.users.v ELSE usersListRef,
              details |-> IF isSettings THEN msg.settings ELSE roomDetails,
              reload |-> IF isSettings THEN 1 ELSE 0]

\* a message event on socket s; the page goes away once a reload was asked for
ObsOnMessage(s, frame) ==
    /\ role = "obs"
    /\ socks[s].readyState = OPEN
    /\ reloads = 0
    /\ frames < MaxFrames
    /\ frames' = frames + 1
    /\ lastFrame' = frame
    /\ LET r == HandleFrame(frame)
       IN  /\ _users' = r.users
           /\ usersListRef' = r.list
           /\ roomDetails' = r.details
           /\ reloads' = reloads + r.reload
    /\ UNCHANGED <<chanVars, physVars, roomVars, timerVars>>

\* the display page after ObsView.vue has loaded the room details and
\* constructed its OBSRoomState
ObsInit ==
    /\ ObsConstructed
    /\ reconnectTimeouts = <<>>
    /\ sendTimeouts = 0
    /\ penRoomMounted = FALSE
    /\ destroyed = FALSE
    /\ muts = 0
    /\ winMuts = 0
    /\ winSends = 0
    /\ lastUpdate = [sock |-> 0, msg |-> NoMsg]
    /\ NoEngine
    /\ NoRoom
    /\ NoDebounce
    /\ _users = <<>>
    /\ usersListRef = <<>>
    /\ roomDetails = SettingsA
    /\ reloads = 0
    /\ frames = 0
    /\ lastFrame = NoFrame

ObsNext ==
    \/ \E s \in 1..Len(socks) : ObsOnOpen(s)
    \/ \E s \in 1..Len(socks) : ObsOnClose(s)
    \/ \E s \in 1..Len(socks) : ObsOnError(s)
    \/ ObsReconnect
    \/ ObsDestroy
    \/ \E s \in 1..Len(socks), frame \in Inbound : ObsOnMessage(s, frame)

SpecObs == ObsInit /\ [][ObsNext]_vars

----------------------------------------------------------------------------
\* Messages of the aggregator on either connection

\* what the aggregator sends to a participant's socket
UserInbound ==
    {Message("roomSettings", Undefined, JMissing, SettingsB),
     Message("state", "room", JArray(Roster(1, 0)), JMissing)}

\* a message event on socket s of a UserRoomState: connect() registers the
\* 'open', 'close' and 'error' listeners only, so no code of the page runs
UserOnMessage(s, frame) ==
    /\ role = "user"
    /\ socks[s].readyState = OPEN
    /\ reloads = 0
    /\ frames < MaxFrames
    /\ frames' = frames + 1
    /\ lastFrame' = frame
    /\ UNCHANGED <<chanVars, physVars, _users, usersListRef, roomDetails, reloads, roomVars, timerVars>>

\* either page, constructed
PushInit ==
    \/ ObsInit
    \/ ChanInit /\ role = "user"

PushNext ==
    \/ ObsNext
    \/ \E s \in 1..Len(socks) : UserOnOpen(s)
    \/ \E s \in 1..Len(socks) : UserOnClose(s)
    \/ \E s \in 1..Len(socks) : UserOnError(s)
    \/ UserReconnect
    \/ UserSendTimer
    \/ UserDestroy
    \/ \E s \in 1..Len(socks), frame \in UserInbound : UserOnMessage(s, frame)

SpecPush == PushInit /\ [][PushNext]_vars

----------------------------------------------------------------------------
\* UserRoomState: the length of the debounce window

\* Bounds of the exploration
MaxDebounce == 12

\* inputs: the debounceMs argument, a non-negative integer or left out
DebounceArgs == {NumberRef(n) : n \in 0..MaxDebounce} \cup {JMissing}

\* the constructor stores the window
UserRoomStateConstructor ==
    /\ role = "debounce"
    /\ _debounceMs = -1
    /\ _debounceMs' = DebounceOf(debounceMs)
    /\ UNCHANGED <<chanVars, physVars, obsVars, roomVars, debounceMs, sendDue, waited>>

\* _scheduleSend() on the open socket, no timer pending: setTimeout(.., _debounceMs)
DebounceSchedule ==
    /\ role = "debounce"
    /\ _debounceMs >= 0
    /\ sendDue = -1
    /\ waited = -1
    /\ sendDue' = _debounceMs
    /\ waited' = 0
    /\ UNCHANGED <<chanVars, physVars, obsVars, roomVars, debounceMs, _debounceMs>>

\* a millisecond passes while the timeout is pending
DebounceElapse ==
    /\ role = "debounce"
    /\ sendDue > 0
    /\ sendDue' = sendDue - 1
    /\ waited' = waited + 1
    /\ UNCHANGED <<chanVars, physVars, obsVars, roomVars, debounceMs, _debounceMs>>

\* the timeout expires: this._sendTimer = null; this._sendUpdate()
DebounceFire ==
    /\ role = "debounce"
    /\ sendDue = 0
    /\ sendDue' = -1
    /\ UNCHANGED <<chanVars, physVars, obsVars, roomVars, debounceMs, _debounceMs, waited>>

DebounceInit ==
    /\ role = "debounce"
    /\ NoConnection
    /\ NoEngine
    /\ NoDisplay
    /\ debounceMs \in DebounceArgs
    /\ _debounceMs = -1
    /\ sendDue = -1
    /\ waited = -1

DebounceNext ==
    \/ UserRoomStateConstructor
    \/ DebounceSchedule
    \/ DebounceElapse
    \/ DebounceFire

SpecDebounce == DebounceInit /\ [][DebounceNext]_vars

----------------------------------------------------------------------------
\* Properties of the connection classes

RECURSIVE SumSched(_)
SumSched(n) == IF n = 0 THEN 0 ELSE socks[n].sched + SumSched(n - 1)

\* C1: once destroy() has been called the instance creates no further
\* WebSocket, whatever timers were pending when it was called.
C1_NoConnectAfterDestroy == [][destroyed => Len(socks') = Len(socks)]_vars

\* C2: a socket's handlers schedule one retry, with the fixed delay, exactly
\* when its close event fired while _closedManually was unset, and none
\* otherwise; an error event only forces the socket closed, so an error
\* followed by its close accounts for one retry, and every retry ever
\* scheduled is either pending or was consumed by one connect().
C2_OneReconnectPerClose ==
    /\ \A s \in 1..Len(socks) :
          /\ socks[s].sched = IF socks[s].closeFired /\ ~socks[s].flagAtClose THEN 1 ELSE 0
          /\ socks[s].errorFired => socks[s].readyState \in {CLOSING, CLOSED}
    /\ \A i \in 1..Len(reconnectTimeouts) : reconnectTimeouts[i] = RECONNECT_DELAY
    /\ Len(reconnectTimeouts) + (Len(socks) - 1) = SumSched(Len(socks))

C2_Witness ==
    \E s \in 1..Len(socks) :
        /\ socks[s].errorFired /\ socks[s].closeFired /\ ~socks[s].flagAtClose
        /\ socks[s].sched = 1
        /\ Len(reconnectTimeouts) = 1

\* C3: a participant socket that is open has sent its hello; the first message
\* on every socket is the one hello (room code, nickname, and the password
\* exactly when one was given), everything after it is an update; and while
\* the open socket has sent nothing but the hello, the debounce timer that
\* will flush the current state is pending.
C3_HelloThenFlush ==
    role = "user" =>
    \A s \in 1..Len(socks) :
        LET k == socks[s] IN
        /\ k.readyState = OPEN => (s = _socket /\ Len(k.sent) >= 1)
        /\ k.sent # <<>> =>
              /\ k.sent[1] = "hello"
              /\ \A i \in 2..Len(k.sent) : k.sent[i] = "update"
              /\ k.hello.roomCode = roomCode
              /\ k.hello.nickname = nickname
              /\ ("password" \in DOMAIN k.hello) <=> (password # "undefined")
              /\ ("password" \in DOMAIN k.hello) => k.hello.password = password
        /\ (k.readyState = OPEN /\ Len(k.sent) = 1) => (_sendTimer /\ sendTimeouts = 1)

C3_Witness ==
    /\ role = "user" /\ muts = 0 /\ ~penRoomMounted /\ password = "pw"
    /\ Len(socks) = 2
    /\ socks[2].readyState = OPEN
    /\ socks[2].sent = <<"hello", "update">>
    /\ "password" \in DOMAIN socks[2].hello

\* C4: however many ref changes fall into one debounce window, the window
\* ends in at most one update; an update is only ever sent by the expiring
\* debounce timer, one per expiry, and it carries the values the refs hold at
\* expiry.
C4_Coalesced ==
    /\ [](winSends <= 1)
    /\ [][ LET expiry == sendTimeouts' = sendTimeouts - 1 /\ destroyed' = destroyed
               opening(s) == socks[s].readyState = CONNECTING /\ socks'[s].readyState = OPEN
           IN
           /\ \A s \in 1..Len(socks) :
                 socks'[s].sent # socks[s].sent =>
                    \/ socks'[s].sent = Append(socks[s].sent, "hello") /\ opening(s)
                    \/ socks'[s].sent = Append(socks[s].sent, "update") /\ expiry
           /\ (expiry /\ _socket # 0 /\ socks[_socket].readyState = OPEN) =>
                 /\ socks'[_socket].sent = Append(socks[_socket].sent, "update")
                 /\ lastUpdate' = [sock |-> _socket,
                                   msg |-> [type |-> "update", x |-> xRef.v, y |-> yRef.v,
                                            theta |-> thetaRef.v, color |-> colorRef.v]]
                 /\ winSends' = 1
                 /\ sendTimeouts' = 0
         ]_vars

C4_Witness ==
    /\ ~_sendTimer /\ sendTimeouts = 0
    /\ winMuts >= 3
    /\ winSends = 1
    /\ _socket # 0 /\ socks[_socket].readyState = OPEN
    /\ lastUpdate.sock = _socket
    /\ lastUpdate.msg.x = xRef.v /\ lastUpdate.msg.theta = thetaRef.v
    /\ lastUpdate.msg.color = colorRef.v /\ colorRef.v = 1

\* C5: while the channel's socket is open, either the debounce timer is
\* pending or the update sent last on that socket carries the present values
\* of x, y, theta and color: what changed while no socket was open is flushed
\* by the open handler's timer without another change.
C5_NothingLost ==
    (role = "user" /\ _socket # 0 /\ socks[_socket].readyState = OPEN) =>
        \/ _sendTimer /\ sendTimeouts > 0
        \/ /\ lastUpdate.sock = _socket
           /\ lastUpdate.msg = [type |-> "update", x |-> xRef.v, y |-> yRef.v,
                                theta |-> thetaRef.v, color |-> colorRef.v]

C5_Witness ==
    /\ Len(socks) = 2
    /\ socks[1].sent = <<>>
    /\ socks[2].readyState = OPEN
    /\ socks[2].sent = <<"hello", "update">>
    /\ muts >= 2 /\ winMuts = 0
    /\ lastUpdate.sock = 2
    /\ lastUpdate.msg.x = Milli /\ lastUpdate.msg.theta = 15 * Milli
    /\ lastUpdate.msg.color = 1

\* C6: every update sent carries x and y within [0, 1].
C6_UpdateInUnitSquare ==
    lastUpdate.sock # 0 =>
        /\ 0 <= lastUpdate.msg.x /\ lastUpdate.msg.x <= Milli
        /\ 0 <= lastUpdate.msg.y /\ lastUpdate.msg.y <= Milli

----------------------------------------------------------------------------
\* Properties of the kinematics engine

EngineState == <<_theta, _omega, _target, _prevX, _vxFilt, _forceEmit, _stopped, _lastTick,
                 _rafId, _lastEmitTime, _lastEmittedThetaDeg>>

\* C7: after every tick theta lies within +/- maxAngleDeg, in radians and in
\* degrees, and so does every angle handed to the callback.
C7_ThetaBounded ==
    role = "physics" =>
        /\ Abs(_theta) <= _degToRad(_maxAngleDeg)
        /\ Abs(_radToDeg(_theta)) <= _maxAngleDeg
        /\ IsFinite(_lastEmittedThetaDeg) => Abs(_lastEmittedThetaDeg.v) <= _maxAngleDeg
        /\ Abs(thetaRef.v) <= _maxAngleDeg

C7_Witness ==
    /\ role = "physics" /\ moves = 2 /\ emits > 0
    /\ Abs(_theta) = _degToRad(_maxAngleDeg)
    /\ _omega = 0
    /\ thetaRef = NumberRef(_radToDeg(_theta))

\* C8: a tick of the running engine that finds the trigger set invokes the
\* callback exactly once.
C8_ForcedOnNextTick ==
    [][(ticks' = ticks + 1 /\ _forceEmit /\ ~_stopped) => emits' = emits + 1]_vars

\* C9: a tick that finds no trigger and leaves the engine at rest does not
\* emit; once x has been unchanged and no trigger set for SettleMs the engine
\* is at rest with the angle within the rest threshold of 0, and no tick
\* emits from then on.
C9_Quiescence ==
    /\ []((role = "physics" /\ ~_stopped /\ stillMs >= SettleMs) =>
            /\ AtRest(_omega, _target, _theta)
            /\ Abs(_radToDeg(_theta)) <= restThetaDegMilli)
    /\ [][ /\ (ticks' = ticks + 1 /\ ~_forceEmit /\ AtRest(_omega', _target', _theta'))
                 => emits' = emits
           /\ (ticks' = ticks + 1 /\ stillMs >= SettleMs) => emits' = emits
         ]_vars

C9_Witness ==
    /\ role = "physics" /\ ~_stopped /\ moves = 2 /\ emits > 0
    /\ stillMs >= SettleMs + QuietMs
    /\ AtRest(_omega, _target, _theta)
    /\ IsFinite(_lastEmittedThetaDeg)
    /\ Abs(_radToDeg(_theta) - _lastEmittedThetaDeg.v) >= minEmitDeltaDegMilli

\* C10: after shutdown() no frame is requested any more, and a tick that
\* still arrives changes nothing of the engine and does not call the
\* callback, also when updateKinematics() was called in between.
C10_ShutdownStops ==
    /\ [](_stopped => _rafId = 0)
    /\ [][(_stopped /\ ticks' = ticks + 1) =>
            /\ UNCHANGED EngineState
            /\ UNCHANGED <<thetaRef, emits>>]_vars

C10_Witness ==
    /\ _stopped /\ _forceEmit /\ staleTicks >= 1
    /\ _rafId = 0 /\ emits = 0

\* C11: on a frame that is integrated while xRef holds no finite number the
\* sample is the centre of the stage and the raw velocity of that frame is 0.
C11_BadInputIsCentreAtRest ==
    [][(/\ role = "physics" /\ ~_stopped /\ ~IsFinite(xRef)
        /\ ticks' = ticks + 1 /\ _lastTick' > _lastTick)
       => LET dt == IF _lastTick' - _lastTick > MaxDtMs THEN MaxDtMs
                    ELSE _lastTick' - _lastTick
          IN  /\ _prevX' = Milli \div 2
              /\ Integrate(dt).rawVx = 0]_vars

----------------------------------------------------------------------------
\* Properties of the stage (OBSRoom.vue)

RosterSize == Len(usersListRef)
Capacity == roomDetails.maxConcurrent
OverCapacity == Capacity > 0 /\ RosterSize > Capacity
\* the number of entries the maxConcurrent filter lets through
Admitted == IF OverCapacity THEN Capacity ELSE RosterSize
IsOriginal(sl) == sl.opacity = 1000
Originals == SelectSeq(displayed, IsOriginal)
Rendering == role = "room" /\ roomPhase = "mounted"

\* C12: while the roster is longer than a positive capacity, subset.value
\* holds exactly capacity indices, pairwise distinct, all in 0..N-1.
C12_SubsetDistinctInRange ==
    (role = "room" /\ roomPhase # "setup" /\ OverCapacity) =>
        /\ Len(subset) = Capacity
        /\ \A a, b \in 1..Len(subset) : a # b => subset[a] # subset[b]
        /\ \A a \in 1..Len(subset) : subset[a] \in 0..(RosterSize - 1)

C12_Witness ==
    /\ Rendering /\ RosterSize = 4 /\ Capacity = 2
    /\ subset = <<3, 1>>

\* C13: every rendering shows as originals the whole roster in roster order
\* when no capacity is set or the roster fits, and otherwise exactly capacity
\* distinct entries of the current roster, in roster order.
C13_OriginalsWithinCapacity ==
    Rendering =>
        IF OverCapacity
        THEN /\ Len(Originals) = Capacity
             /\ Range(subset) \subseteq 0..(RosterSize - 1)
             /\ \E S \in SUBSET (0..(RosterSize - 1)) :
                   /\ Cardinality(S) = Capacity
                   /\ LET chosen == FilterFrom(usersListRef, 0, S)
                      IN  \A k \in 1..Capacity :
                             /\ Originals[k].nickname = chosen[k].nickname
                             /\ Originals[k].theta = chosen[k].theta
        ELSE /\ Len(Originals) = RosterSize
             /\ \A k \in 1..RosterSize :
                   /\ Originals[k].nickname = usersListRef[k].nickname
                   /\ Originals[k].theta = usersListRef[k].theta

C13_Witness ==
    /\ Rendering /\ RosterSize = 3 /\ Capacity = 2
    /\ Len(Originals) = 2
    /\ Originals[1].nickname = usersListRef[2].nickname
    /\ Originals[2].nickname = usersListRef[3].nickname

\* C14: with the roster longer than the capacity, the equally likely draws of
\* the shuffle produce every order of the roster indices exactly once, so
\* every participant is in the subset for the share C / R of the draws, and
\* the subset in use is the prefix of one such shuffle.
C14_FairRotation ==
    (Rendering /\ OverCapacity) =>
        LET N == RosterSize
            all == Draws(N)
            idxs == [k \in 1..N |-> k - 1]
        IN  /\ Cardinality({ShuffleFrom(idxs, N - 1, js) : js \in all}) = Cardinality(all)
            /\ \A q \in 0..(N - 1) :
                  Cardinality({js \in all : q \in Range(pickSubset(Capacity, N, js))}) * N
                      = Capacity * Cardinality(all)
            /\ \E js \in all : subset = pickSubset(Capacity, N, js)

C14_Witness ==
    /\ Rendering /\ RosterSize = 4 /\ Capacity = 1
    /\ subset = <<3>>

\* C15: with duplication on and 0 < n < threshold admitted entries, every
\* entry is followed by min(3, max(1, ceil((threshold - n) / n))) duplicates
\* of opacity 0.8, n * (1 + perUser) slots in all; otherwise exactly the n
\* entries are emitted, all with opacity 1.
C15_DuplicateCount ==
    Rendering =>
        LET n == Admitted
            threshold == roomDetails.duplicationThreshold
        IN  IF roomDetails.duplicateUsers /\ 0 < n /\ n < threshold
            THEN LET perUser == Min(3, Max(1, CeilDiv(threshold - n, n)))
                 IN  /\ Len(displayed) = n * (1 + perUser)
                     /\ \A k \in 1..Len(displayed) :
                           LET first == ((k - 1) \div (1 + perUser)) * (1 + perUser) + 1
                           IN  /\ displayed[k].opacity = IF k = first THEN 1000 ELSE 800
                               /\ displayed[k].nickname = displayed[first].nickname
            ELSE /\ Len(displayed) = n
                 /\ \A k \in 1..n : displayed[k].opacity = 1000

C15_Witness ==
    /\ Rendering /\ Admitted = 2
    /\ roomDetails.duplicateUsers /\ roomDetails.duplicationThreshold = 5
    /\ Len(displayed) = 6

\* C16: duplicates are emitted only while the roster is shorter than the
\* threshold, and their number per entry follows from the roster length.
C16_DuplicatesOnlyBelowThreshold ==
    Rendering =>
        LET threshold == roomDetails.duplicationThreshold
            dups == Len(displayed) - Len(Originals)
        IN  /\ RosterSize >= threshold => dups = 0
            /\ dups > 0 =>
                  dups = Len(Originals)
                         * Min(3, Max(1, CeilDiv(threshold - RosterSize, RosterSize)))

\* C17: the keys of the slots of one rendering are pairwise distinct.
C17_KeysDistinct ==
    Rendering =>
        \A a, b \in 1..Len(displayed) : a # b => displayed[a].key # displayed[b].key

C17_Witness ==
    /\ Rendering /\ OverCapacity
    /\ Len(displayed) > Len(Originals) /\ Len(Originals) >= 2

\* C18: duplicate d of the i-th rendered entry lies at the offset given by the
\* ((i + d) mod 5)-th star angle and the ((i + d) mod 3)-th of the radii
\* 0.18, 0.23, 0.28 of the stage, measured from its original.
Radii == <<180, 230, 280>>
C18_OffsetByIndices ==
    Rendering =>
        \A k \in 1..Len(displayed) :
            ~IsOriginal(displayed[k]) =>
                LET i == Cardinality({m \in 1..k : IsOriginal(displayed[m])}) - 1
                    first == CHOOSE m \in 1..k :
                                /\ IsOriginal(displayed[m])
                                /\ \A m2 \in (m + 1)..k : ~IsOriginal(displayed[m2])
                    d == k - first - 1
                    a == ((i + d) % 5) + 1
                    r == Radii[((i + d) % 3) + 1]
                IN  /\ displayed[k].x - displayed[first].x = TDiv(r * CosMilli[a], Milli) * stageW
                    /\ displayed[k].y - displayed[first].y = TDiv(r * SinMilli[a], Milli) * stageH

C18_Witness ==
    /\ Rendering /\ stageW = 1280
    /\ Len(displayed) = 6 /\ Len(Originals) = 2
    /\ displayed[6].x - displayed[4].x = TDiv(280 * CosMilli[3], Milli) * stageW
    /\ displayed[6].y - displayed[4].y = TDiv(280 * SinMilli[3], Milli) * stageH

----------------------------------------------------------------------------
\* Properties of the display connection's message handler

FrameHandled == role = "obs" /\ frames' = frames + 1
ValidState(frame) ==
    /\ frame.ok
    /\ frame.value.t = "object"
    /\ frame.value.type = "state"
    /\ frame.value.room = roomCode
    /\ IsArray(frame.value.users)

\* C19: a 'state' message for this room whose users are an array leaves
\* exactly that array, in its order, as the roster: nothing of the previous
\* roster survives.
C19_BroadcastReplacesRoster ==
    [][(FrameHandled /\ ValidState(lastFrame'))
       => /\ _users' = lastFrame'.value.users.v
          /\ usersListRef' = lastFrame'.value.users.v]_vars

C19_Witness ==
    /\ role = "obs" /\ frames = 2
    /\ ValidState(lastFrame)
    /\ lastFrame.value.users.v = Roster(1, 1)
    /\ _users = Roster(1, 1)
    /\ usersListRef = Roster(1, 1)

\* C20: a frame that is no JSON, a 'state' message for another room or
\* without a users array, or a message without its type or its room changes
\* neither the roster nor the room settings nor the connection status.
Malformed(frame) ==
    \/ ~frame.ok
    \/ frame.value.t = "null"
    \/ frame.value.type = Undefined
    \/ /\ frame.value.type = "state"
       /\ ~(frame.value.room = roomCode /\ IsArray(frame.value.users))
C20_MalformedDropped ==
    [][(FrameHandled /\ Malformed(lastFrame'))
       => UNCHANGED <<_users, usersListRef, roomDetails, reloads, connectionStatusRef>>]_vars

C20_Witness ==
    /\ role = "obs" /\ frames = 2
    /\ lastFrame.ok /\ Malformed(lastFrame)
    /\ lastFrame.value.t = "object"
    /\ lastFrame.value.room = "other"
    /\ IsArray(lastFrame.value.users)
    /\ lastFrame.value.users.v = Roster(2, 0)
    /\ usersListRef = Roster(1, 1)
    /\ connectionStatusRef = "open"

----------------------------------------------------------------------------
\* Properties of the configuration push

\* C21: a 'roomSettings' message delivered on the open socket of either
\* page, display or participant, makes the page ask for a reload.
C21_PushTriggersReload ==
    [][(/\ frames' = frames + 1
        /\ lastFrame'.ok
        /\ lastFrame'.value.t = "object"
        /\ lastFrame'.value.type = "roomSettings") => reloads' = reloads + 1]_vars

----------------------------------------------------------------------------
\* Properties of the channel while its socket is not open

\* C22: a write to one of the watched refs while the channel has no socket
\* (as destroy() leaves it) or its socket is connecting, closing or closed
\* sends nothing on any socket and arms no debounce timer.
C22_NoSendWhileNotOpen ==
    [][(/\ role = "user"
        /\ <<xRef, yRef, thetaRef, colorRef>>' # <<xRef, yRef, thetaRef, colorRef>>
        /\ (_socket = 0 \/ socks[_socket].readyState # OPEN))
       => /\ socks' = socks
          /\ sendTimeouts' = sendTimeouts
          /\ _sendTimer' = _sendTimer]_vars

C22_Witness ==
    /\ role = "user" /\ muts = MaxMut /\ ~destroyed
    /\ Len(socks) = 1 /\ socks[1].readyState = CONNECTING
    /\ xRef # NumberRef(UnsetCoord) /\ colorRef # NumberRef(0)
    /\ sendTimeouts = 0 /\ ~_sendTimer

\* C23: once destroy() has returned, no step sends a message on any socket
\* of the channel and the published status is 'closed' after every step.
C23_QuietAfterDestroy ==
    [][(role = "user" /\ destroyed)
       => /\ \A s \in 1..Len(socks') :
                socks'[s].sent = (IF s <= Len(socks) THEN socks[s].sent ELSE <<>>)
          /\ connectionStatusRef' = "closed"]_vars


----------------------------------------------------------------------------
\* Properties of the display stage over time

\* C24: while the roster and the settings stay as they are, a participant
\* that is rendered before and after a step has the same keys, for its
\* original and its duplicates, before and after.
C24_KeysStable ==
    [][(role = "room" /\ roomPhase = "mounted" /\ roomPhase' = "mounted"
        /\ usersListRef' = usersListRef /\ roomDetails' = roomDetails)
       => \A nick \in Range(Names) :
             LET before == {displayed[k].key :
                              k \in {k1 \in DOMAIN displayed : displayed[k1].nickname = nick}}
                 after == {displayed'[k].key :
                              k \in {k1 \in DOMAIN displayed' : displayed'[k1].nickname = nick}}
             IN  (before # {} /\ after # {}) => after = before]_vars

\* C25: a broadcast of the roster the component already shows, arriving
\* between two ticks of the refresh timer, leaves subset.value as it is:
\* the chosen indices change at the ticks of the timer only.
C25_RedrawnOnlyByTimer ==
    [][(role = "room" /\ OBSRoomUsers(usersListRef)) => subset' = subset]_vars

----------------------------------------------------------------------------
\* Properties of the emission throttle

\* C26: a tick that finds no trigger set calls the callback only if the
\* engine is not at rest after the step, updateInterval ms or more have
\* passed since the last emission, and the angle is minEmitDeltaDeg or more
\* away from the angle emitted last (if any was): two emissions with no
\* trigger between them are updateInterval ms or more apart.
C26_UnforcedEmission ==
    [][(role = "physics" /\ emits' = emits + 1 /\ ~_forceEmit)
       => /\ ~AtRest(_omega', _target', _theta')
          /\ _lastTick' - _lastEmitTime >= updateInterval
          /\ _lastEmitTime' - _lastEmitTime >= updateInterval
          /\ \/ ~IsFinite(_lastEmittedThetaDeg)
             \/ Abs(_radToDeg(_theta') - _lastEmittedThetaDeg.v) >= minEmitDeltaDegMilli]_vars

C26_Witness ==
    /\ role = "physics" /\ triggers = 0 /\ emits >= 2
    /\ IsFinite(_lastEmittedThetaDeg)
    /\ _lastEmitTime = _lastTick
    /\ _lastEmitTime >= PageTime + 2 * updateInterval

----------------------------------------------------------------------------
\* Properties of the refresh timer

\* C27: there is never more than one live interval; while the component is
\* mounted one is live exactly when maxConcurrent is set and the roster is
\* longer than it, and rrTimer is its handle; after onBeforeUnmount none is.
C27_OneRefreshTimer ==
    role = "room" =>
        /\ Cardinality(intervals) <= 1
        /\ \A t \in intervals : t.id = rrTimer
        /\ roomPhase = "mounted" => ((intervals # {}) <=> OverCapacity)
        /\ roomPhase = "unmounted" => (intervals = {} /\ rrTimer = 0)

C27_Witness ==
    /\ role = "room" /\ roomPhase = "unmounted"
    /\ OverCapacity /\ RosterSize = MaxRoster
    /\ subset # <<>>
    /\ intervals = {}

----------------------------------------------------------------------------
\* Properties of the published connection status

\* C28: the status is one of idle, connecting, open, closed and error, and
\* it changes only from idle to connecting, from connecting to open, from
\* open to closed or error, and from closed or error to connecting.
C28_StatedMachine ==
    [][LET was == connectionStatusRef
           now == connectionStatusRef'
       IN  role \in {"user", "obs"} =>
             /\ now \in {"idle", "connecting", "open", "closed", "error"}
             /\ now # was =>
                  <<was, now>> \in {<<"idle", "connecting">>, <<"connecting", "open">>,
                                    <<"open", "closed">>, <<"open", "error">>,
                                    <<"closed", "connecting">>, <<"error", "connecting">>}]_vars

\* C28, amended: the status also goes from connecting to error or closed
\* (an attempt that fails, or destroy() before the socket opens), from
\* error to closed (the close event after an error) and from closed to
\* error (an error event of the socket destroy() is closing).
C28_ObservedMachine ==
    [][LET was == connectionStatusRef
           now == connectionStatusRef'
       IN  role \in {"user", "obs"} =>
             /\ now \in {"idle", "connecting", "open", "closed", "error"}
             /\ now # was =>
                  <<was, now>> \in {<<"idle", "connecting">>, <<"connecting", "open">>,
                                    <<"open", "closed">>, <<"open", "error">>,
                                    <<"closed", "connecting">>, <<"error", "connecting">>,
                                    <<"connecting", "error">>, <<"connecting", "closed">>,
                                    <<"error", "closed">>, <<"closed", "error">>}]_vars

C28_Witness ==
    /\ role = "user" /\ Len(socks) = 2
    /\ socks[1].errorFired /\ socks[1].closeFired
    /\ socks[2].readyState = OPEN
    /\ connectionStatusRef = "open"

----------------------------------------------------------------------------
\* Properties of the debounce window

\* C29: the debounce timeout runs for as many ms as the debounceMs argument
\* says, and for 5 ms when the argument is left out.
C29_WindowIsArgument ==
    (role = "debounce" /\ sendDue = -1 /\ waited >= 0)
        => waited = (IF debounceMs.t = "undefined" THEN 5 ELSE debounceMs.v)

----------------------------------------------------------------------------
\* Properties of the sockets of one instance

\* C30: after every step at most one socket of the instance is connecting
\* or open, and a step that creates a socket finds every earlier socket
\* closed.
C30_OneLiveSocket ==
    [][(role = "user" \/ role = "obs") =>
         /\ Cardinality({s \in 1..Len(socks') :
                           socks'[s].readyState \in {CONNECTING, OPEN}}) <= 1
         /\ Len(socks') > Len(socks) =>
               \A s \in 1..Len(socks) : socks[s].readyState = CLOSED]_vars

C30_Witness ==
    /\ role = "obs" /\ destroyed
    /\ Len(socks) = MaxSockets
    /\ socks[1].readyState = CLOSED /\ socks[1].errorFired
    /\ socks[Len(socks)].readyState = OPEN
====
